---- MODULE Spec2Model ----
(***************************************************************************)
(* Document approval workflow of unidoc (run.py, with app.py as the older  *)
(* entry point): the user directory, one document row, its approval        *)
(* ledger (document_approval rows) and the JSON handlers that move the     *)
(* document through draft -> submitted -> supervisor_approved ->           *)
(* department_approved -> approved, or to rejected and back.               *)
(***************************************************************************)
EXTENDS Integers, Sequences, FiniteSets, TLC

VARIABLES
    users,        \* user table: id -> [role, department, faculty, is_active]
    documents,    \* document table: sequence of rows, row i has id i
    approvals,    \* document_approval table, in insertion order
    now,          \* the wall clock read by datetime.utcnow()
    sessions,     \* per worker: the request in flight and the row it loaded
    response      \* what the last finished request did and answered

vars == <<users, documents, approvals, now, sessions, response>>

----------------------------------------------------------------------------
(* Bounds of the exploration. *)

MaxRejected == 2    \* rejected rows of one document in document_approval
MaxTime == 1        \* ticks of the wall clock
MaxWorkers == 2     \* requests in flight at once
MaxLedger == 2      \* ledger rows kept by the concurrent exploration
MaxDirectory == 2   \* users of the directories the create form is tried on
MaxStamps == 3      \* readings of the clock by requests in flight
MaxUsers == 7       \* rows of the user table in the sign-up exploration

----------------------------------------------------------------------------
(* Values. *)

\* A NULL foreign key (supervisor_id, department_head_id, dean_id unset).
NoUser == 0

Statuses ==
    {"draft", "submitted", "supervisor_approved", "department_approved",
     "approved", "rejected"}

valid_roles == {"student", "teacher", "department_head", "dean", "admin"}

\* request.get_json()'s 'comments': absent/empty, or a text.
Comments == {"", "incomplete"}

\* The users the database holds: the three rows init_database seeds (admin,
\* teacher1, student1) and a department head and a dean added by
\* admin_add_user, all active.
SeedUsers ==
    << [role |-> "admin", department |-> "", faculty |-> "", is_active |-> TRUE],
       [role |-> "teacher", department |-> "IT", faculty |-> "Engineering",
        is_active |-> TRUE],
       [role |-> "student", department |-> "IT", faculty |-> "Engineering",
        is_active |-> TRUE],
       [role |-> "department_head", department |-> "IT",
        faculty |-> "Engineering", is_active |-> TRUE],
       [role |-> "dean", department |-> "Physics", faculty |-> "Engineering",
        is_active |-> TRUE] >>

UserIds == DOMAIN users

\* The document id the requests name: the first row of the table.
DocIds == {1}

Workers == 1..MaxWorkers

Idle == [phase |-> "idle"]

NoResponse ==
    [op |-> "none", user |-> NoUser, doc_id |-> 0, code |-> 0, from |-> "none",
     rows |-> 0, comments |-> "", notified |-> <<>>, lost |-> 0,
     author_id |-> NoUser, pending_docs |-> {}]

\* What the environment gives one request: `commit` is the handler's own
\* db.session.commit(), `notify` the commit inside create_notification,
\* each of which raises (FALSE) or succeeds (TRUE); `utcnow` is the value
\* datetime.utcnow() returns to the handler.
WriteOutcomes == [commit : BOOLEAN, notify : BOOLEAN, utcnow : {now}]

\* Every commit succeeds and the clock is read as the request commits.
AllWritesOk == [commit |-> TRUE, notify |-> TRUE, utcnow |-> now]

----------------------------------------------------------------------------
(* Helpers of run.py. *)

\* can_create_document_for_user whose teacher branch forgets the test of the
\* target's role.
can_create_document_for_user_AnyRole(creator, target_user) ==
    IF users[creator].role = "admin" THEN TRUE
    ELSE IF users[creator].role = "dean"
        THEN users[target_user].faculty = users[creator].faculty
    ELSE IF users[creator].role = "department_head"
        THEN users[target_user].department = users[creator].department
    ELSE IF users[creator].role = "teacher"
        THEN users[target_user].department = users[creator].department
    ELSE creator = target_user

can_create_document_for_user(creator, target_user) ==
    IF users[creator].role = "admin" THEN TRUE
    ELSE IF users[creator].role = "dean"
        THEN users[target_user].faculty = users[creator].faculty
    ELSE IF users[creator].role = "department_head"
        THEN users[target_user].department = users[creator].department
    ELSE IF users[creator].role = "teacher"
        THEN /\ users[target_user].role = "student"
             /\ users[target_user].department = users[creator].department
    ELSE creator = target_user

\* create_notification(user_id, title, message): the row it adds.
create_notification(user_id, title) ==
    [user_id |-> user_id, title |-> title]

\* The notification to the supervisor, sent only "if document.supervisor_id".
NotifySupervisor(document, title) ==
    IF document.supervisor_id # NoUser
        THEN <<create_notification(document.supervisor_id, title)>>
        ELSE <<>>

\* The try/except of create_notification around the rows a handler sends:
\* when the commit raises, the row is rolled back, the error is printed and
\* False is returned to a caller that does not look at it.
Sent(io, tried) ==
    [notified |-> IF io.notify THEN tried ELSE <<>>,
     lost |-> IF io.notify THEN 0 ELSE Len(tried)]

\* A request that sends nothing.
NothingSent == [notified |-> <<>>, lost |-> 0]

\* DocumentApproval(document_id, approver_id, approval_type, status, comments)
DocumentApproval(doc_id, approver_id, approval_type, status, comments) ==
    [document_id |-> doc_id, approver_id |-> approver_id,
     approval_type |-> approval_type, status |-> status,
     comments |-> comments]

\* ApproveCheck with the tests of document.status left out: role and
\* assignment alone decide.
ApproveCheck_NoStatus(u, document) ==
    IF users[u].role = "teacher" /\ document.supervisor_id = u
        THEN [can_approve |-> TRUE, next_status |-> "supervisor_approved",
              approval_type |-> "supervisor"]
    ELSE IF users[u].role = "department_head" /\ document.department_head_id = u
        THEN [can_approve |-> TRUE, next_status |-> "department_approved",
              approval_type |-> "department_head"]
    ELSE IF users[u].role = "dean" /\ document.dean_id = u
        THEN [can_approve |-> TRUE, next_status |-> "approved",
              approval_type |-> "dean"]
    ELSE [can_approve |-> FALSE, next_status |-> "none",
          approval_type |-> "none"]

\* ApproveCheck whose dean branch tests for the status it is about to write.
ApproveCheck_DeanTestsApproved(u, document) ==
    LET no == [can_approve |-> FALSE, next_status |-> "none",
               approval_type |-> "none"]
    IN  IF users[u].role = "teacher" /\ document.supervisor_id = u
            THEN IF document.status = "submitted"
                     THEN [can_approve |-> TRUE,
                           next_status |-> "supervisor_approved",
                           approval_type |-> "supervisor"]
                     ELSE no
        ELSE IF users[u].role = "department_head"
                /\ document.department_head_id = u
            THEN IF document.status = "supervisor_approved"
                     THEN [can_approve |-> TRUE,
                           next_status |-> "department_approved",
                           approval_type |-> "department_head"]
                     ELSE no
        ELSE IF users[u].role = "dean" /\ document.dean_id = u
            THEN IF document.status = "approved"
                     THEN [can_approve |-> TRUE,
                           next_status |-> "approved",
                           approval_type |-> "dean"]
                     ELSE no
        ELSE no

\* The "Huquqni tekshirish" block of approve_document: can_approve,
\* next_status and approval_type for current_user and the loaded row.
ApproveCheck(u, document) ==
    LET no == [can_approve |-> FALSE, next_status |-> "none",
               approval_type |-> "none"]
    IN  IF users[u].role = "teacher" /\ document.supervisor_id = u
            THEN IF document.status = "submitted"
                     THEN [can_approve |-> TRUE,
                           next_status |-> "supervisor_approved",
                           approval_type |-> "supervisor"]
                     ELSE no
        ELSE IF users[u].role = "department_head"
                /\ document.department_head_id = u
            THEN IF document.status = "supervisor_approved"
                     THEN [can_approve |-> TRUE,
                           next_status |-> "department_approved",
                           approval_type |-> "department_head"]
                     ELSE no
        ELSE IF users[u].role = "dean" /\ document.dean_id = u
            THEN IF document.status = "department_approved"
                     THEN [can_approve |-> TRUE,
                           next_status |-> "approved",
                           approval_type |-> "dean"]
                     ELSE no
        ELSE no

\* can_reject of reject_document.
can_reject(u, document) ==
    \/ users[u].role = "teacher" /\ document.supervisor_id = u
    \/ users[u].role = "department_head" /\ document.department_head_id = u
    \/ users[u].role = "dean" /\ document.dean_id = u

\* approval_type of reject_document.
RejectApprovalType(u) ==
    IF users[u].role = "teacher" THEN "supervisor" ELSE users[u].role

\* DeleteApprovals that deletes the document's rejected rows only.
DeleteApprovals_RejectedOnly(rows, doc_id) ==
    SelectSeq(rows, LAMBDA a : ~(a.document_id = doc_id /\ a.status = "rejected"))

\* DocumentApproval.query.filter_by(document_id=doc_id).delete()
DeleteApprovals(rows, doc_id) ==
    SelectSeq(rows, LAMBDA a : a.document_id # doc_id)

\* Document.query.get_or_404(doc_id) finds a row.
Exists(doc_id) == doc_id \in DOMAIN documents

\* The answer of a request, with what it saw when it started: the status of
\* the row it loaded (from) and the number of ledger rows (rows).
Answer(op, u, doc_id, code, from, comments, sent) ==
    [op |-> op, user |-> u, doc_id |-> doc_id, code |-> code, from |-> from,
     rows |-> Len(approvals), comments |-> comments,
     notified |-> sent.notified, lost |-> sent.lost, author_id |-> NoUser,
     pending_docs |-> {}]

\* get_or_404 raises inside the handler's try: the except branch answers 500.
NotFound(op, u, doc_id, comments) ==
    /\ ~Exists(doc_id)
    /\ response' = Answer(op, u, doc_id, 500, "none", comments, NothingSent)
    /\ UNCHANGED <<users, documents, approvals, now>>

\* A refusal that returns after document.updated_at was set and flushed.
Refuse_TouchesRow(op, u, doc_id, code, document, comments) ==
    /\ response' = Answer(op, u, doc_id, code, document.status, comments,
                           NothingSent)
    /\ documents' = [documents EXCEPT ![doc_id].updated_at = now]
    /\ UNCHANGED <<users, approvals, now>>

\* A refusal: the handler returns before it writes anything.
Refuse(op, u, doc_id, code, document, comments) ==
    /\ response' = Answer(op, u, doc_id, code, document.status, comments,
                           NothingSent)
    /\ UNCHANGED <<users, documents, approvals, now>>

\* db.session.commit() raises: the except branch rolls the session back, so
\* none of the request's writes reaches the tables, and answers 500.
Rollback(op, u, doc_id, document, comments) ==
    Refuse(op, u, doc_id, 500, document, comments)

\* UpdateStatus that also resets the dean of the row.
UpdateStatus_ResetsDean(doc_id, status, utcnow) ==
    documents' = [documents EXCEPT ![doc_id].status = status,
                                   ![doc_id].updated_at = utcnow,
                                   ![doc_id].dean_id = NoUser]

\* document.status = ...; document.updated_at = datetime.utcnow(), flushed by
\* db.session.commit() as an UPDATE of these two columns of row doc_id.
UpdateStatus(doc_id, status, utcnow) ==
    documents' = [documents EXCEPT ![doc_id].status = status,
                                   ![doc_id].updated_at = utcnow]

----------------------------------------------------------------------------
(* The handlers of run.py.  Each takes current_user (u), the route's doc_id, *)
(* the request's comments where it reads them, `document`, the row that      *)
(* get_or_404 loaded at the start of the request, and `io`, the outcomes of  *)
(* the commits it issues.                                                    *)

\* create_document: u is current_user, the other arguments are form fields.
\* The answer keeps the form's author_id.
create_document(u, author_id, supervisor_id, department_head_id, dean_id) ==
    LET author == IF users[u].role \in {"admin", "teacher", "department_head", "dean"}
                      THEN author_id ELSE u
    IN  IF author \notin UserIds \/ ~can_create_document_for_user(u, author)
            THEN /\ response' =
                        [Answer("create_document", u, 0, 200, "none", "",
                                NothingSent) EXCEPT !.author_id = author_id]
                 /\ UNCHANGED <<users, documents, approvals, now>>
            ELSE /\ documents' = Append(documents,
                         [status |-> "draft", author_id |-> author,
                          supervisor_id |-> supervisor_id,
                          department_head_id |-> department_head_id,
                          dean_id |-> dean_id, updated_at |-> now])
                 /\ response' =
                        [Answer("create_document", u, Len(documents) + 1, 302,
                                "none", "", NothingSent)
                             EXCEPT !.author_id = author_id]
                 /\ UNCHANGED <<users, approvals, now>>

\* submit_document without the test of document.status.
submit_document_NoDraftCheck(u, doc_id, document, io) ==
    IF document.author_id # u
        THEN Refuse("submit", u, doc_id, 403, document, "")
    ELSE IF ~io.commit
        THEN Rollback("submit", u, doc_id, document, "")
    ELSE /\ UpdateStatus(doc_id, "submitted", io.utcnow)
         /\ response' = Answer("submit", u, doc_id, 200, document.status, "",
               Sent(io, NotifySupervisor(document,
                                         "Yangi hujjat tasdiq kutmoqda")))
         /\ UNCHANGED <<users, approvals, now>>

submit_document(u, doc_id, document, io) ==
    IF document.author_id # u
        THEN Refuse("submit", u, doc_id, 403, document, "")
    ELSE IF document.status # "draft"
        THEN Refuse("submit", u, doc_id, 400, document, "")
    ELSE IF ~io.commit
        THEN Rollback("submit", u, doc_id, document, "")
    ELSE /\ UpdateStatus(doc_id, "submitted", io.utcnow)
         /\ response' = Answer("submit", u, doc_id, 200, document.status, "",
               Sent(io, NotifySupervisor(document,
                                         "Yangi hujjat tasdiq kutmoqda")))
         /\ UNCHANGED <<users, approvals, now>>

\* approve_document that commits the ledger row on its own, before the commit
\* of the status: when that second commit raises the row stays.
approve_document_SplitCommit(u, doc_id, comments, document, io) ==
    LET check == ApproveCheck(u, document) IN
    IF ~check.can_approve
        THEN Refuse("approve", u, doc_id, 403, document, comments)
    ELSE IF ~io.commit
        THEN /\ approvals' = Append(approvals,
                     DocumentApproval(doc_id, u, check.approval_type,
                                      "approved", comments))
             /\ response' = Answer("approve", u, doc_id, 500, document.status,
                                   comments, NothingSent)
             /\ UNCHANGED <<users, documents, now>>
    ELSE /\ approvals' = Append(approvals,
                 DocumentApproval(doc_id, u, check.approval_type,
                                  "approved", comments))
         /\ UpdateStatus(doc_id, check.next_status, io.utcnow)
         /\ response' = Answer("approve", u, doc_id, 200, document.status, comments,
               Sent(io, <<create_notification(document.author_id,
                                              "Hujjat tasdiqlandi")>>))
         /\ UNCHANGED <<users, now>>

approve_document(u, doc_id, comments, document, io) ==
    LET check == ApproveCheck(u, document) IN
    IF ~check.can_approve
        THEN Refuse("approve", u, doc_id, 403, document, comments)
    ELSE IF ~io.commit
        THEN Rollback("approve", u, doc_id, document, comments)
    ELSE /\ approvals' = Append(approvals,
                 DocumentApproval(doc_id, u, check.approval_type,
                                  "approved", comments))
         /\ UpdateStatus(doc_id, check.next_status, io.utcnow)
         /\ response' = Answer("approve", u, doc_id, 200, document.status, comments,
               Sent(io, <<create_notification(document.author_id,
                                              "Hujjat tasdiqlandi")>>))
         /\ UNCHANGED <<users, now>>

\* reject_document that keeps one row per document: it overwrites the last
\* row of the ledger instead of adding one.
reject_document_Overwrites(u, doc_id, comments, document, io) ==
    LET row == DocumentApproval(doc_id, u, RejectApprovalType(u),
                                "rejected", comments)
    IN  IF ~can_reject(u, document)
            THEN Refuse("reject", u, doc_id, 403, document, comments)
        ELSE IF ~io.commit
            THEN Rollback("reject", u, doc_id, document, comments)
        ELSE /\ approvals' = IF approvals = <<>> THEN <<row>>
                             ELSE [approvals EXCEPT ![Len(approvals)] = row]
             /\ UpdateStatus(doc_id, "rejected", io.utcnow)
             /\ response' = Answer("reject", u, doc_id, 200, document.status,
                   comments,
                   Sent(io, <<create_notification(document.author_id,
                                                  "Hujjat rad etildi")>>))
             /\ UNCHANGED <<users, now>>

reject_document(u, doc_id, comments, document, io) ==
    IF ~can_reject(u, document)
        THEN Refuse("reject", u, doc_id, 403, document, comments)
    ELSE IF ~io.commit
        THEN Rollback("reject", u, doc_id, document, comments)
    ELSE /\ approvals' = Append(approvals,
                 DocumentApproval(doc_id, u, RejectApprovalType(u),
                                  "rejected", comments))
         /\ UpdateStatus(doc_id, "rejected", io.utcnow)
         /\ response' = Answer("reject", u, doc_id, 200, document.status, comments,
               Sent(io, <<create_notification(document.author_id,
                                              "Hujjat rad etildi")>>))
         /\ UNCHANGED <<users, now>>

\* document_resubmit without the test of document.author_id.
document_resubmit_AnyUser(u, doc_id, document, io) ==
    IF document.status # "rejected"
        THEN Refuse("resubmit", u, doc_id, 400, document, "")
    ELSE IF ~io.commit
        THEN Rollback("resubmit", u, doc_id, document, "")
    ELSE /\ UpdateStatus(doc_id, "submitted", io.utcnow)
         /\ approvals' = DeleteApprovals(approvals, doc_id)
         /\ response' = Answer("resubmit", u, doc_id, 200, document.status, "",
               Sent(io, NotifySupervisor(document, "Hujjat qayta yuborildi")))
         /\ UNCHANGED <<users, now>>

document_resubmit(u, doc_id, document, io) ==
    IF document.author_id # u
        THEN Refuse("resubmit", u, doc_id, 403, document, "")
    ELSE IF document.status # "rejected"
        THEN Refuse("resubmit", u, doc_id, 400, document, "")
    ELSE IF ~io.commit
        THEN Rollback("resubmit", u, doc_id, document, "")
    ELSE /\ UpdateStatus(doc_id, "submitted", io.utcnow)
         /\ approvals' = DeleteApprovals(approvals, doc_id)
         /\ response' = Answer("resubmit", u, doc_id, 200, document.status, "",
               Sent(io, NotifySupervisor(document, "Hujjat qayta yuborildi")))
         /\ UNCHANGED <<users, now>>

\* Time passes between two requests.
Tick ==
    /\ now < MaxTime
    /\ now' = now + 1
    /\ UNCHANGED <<users, documents, approvals, sessions, response>>

----------------------------------------------------------------------------
(* Inputs of the exploration. *)

Ops == {"submit", "approve", "reject", "resubmit"}

\* The comments a request of kind op carries.
CommentsOf(op) == IF op \in {"approve", "reject"} THEN Comments ELSE {""}

\* The author field of the create form: documents are written for teachers
\* and students.
FormAuthors == {u \in UserIds : users[u].role \in {"teacher", "student"}}

\* The approver fields of the create form: empty, or a user of the lists the
\* form offers (get_teachers, get_department_heads, get_deans), in any field.
FormApprovers ==
    {NoUser} \cup {u \in UserIds :
                     users[u].role \in {"teacher", "department_head", "dean"}}

\* reject_document can be repeated without end; the exploration stops adding
\* rejected rows at MaxRejected.
Rejected(rows) == SelectSeq(rows, LAMBDA a : a.status = "rejected")

Bounded == Len(Rejected(approvals')) <= MaxRejected

Init ==
    /\ users = SeedUsers
    /\ documents = <<>>
    /\ approvals = <<>>
    /\ now = 0
    /\ sessions = [w \in Workers |-> Idle]
    /\ response = NoResponse

\* The one document the exploration follows is created once.
Create ==
    /\ documents = <<>>
    /\ \E u \in UserIds, a \in FormAuthors, s, h, d \in FormApprovers :
          create_document(u, a, s, h, d)
    /\ UNCHANGED sessions

\* A request that names a document id with no row.
Missing ==
    /\ \E op \in Ops, u \in UserIds, doc_id \in DocIds, c \in Comments :
          c \in CommentsOf(op) /\ NotFound(op, u, doc_id, c)
    /\ UNCHANGED sessions

----------------------------------------------------------------------------
(* Serial execution: each request runs from get_or_404 to its return before *)
(* the next one starts, so the row it loaded is the row of the table.       *)

Submit ==
    /\ \E u \in UserIds, doc_id \in DocIds :
          Exists(doc_id)
          /\ submit_document(u, doc_id, documents[doc_id], AllWritesOk)
    /\ UNCHANGED sessions

Approve ==
    /\ \E u \in UserIds, doc_id \in DocIds, c \in Comments :
          Exists(doc_id)
          /\ approve_document(u, doc_id, c, documents[doc_id], AllWritesOk)
    /\ UNCHANGED sessions

Reject ==
    /\ \E u \in UserIds, doc_id \in DocIds, c \in Comments :
          Exists(doc_id)
          /\ reject_document(u, doc_id, c, documents[doc_id], AllWritesOk)
    /\ Bounded
    /\ UNCHANGED sessions

Resubmit ==
    /\ \E u \in UserIds, doc_id \in DocIds :
          Exists(doc_id)
          /\ document_resubmit(u, doc_id, documents[doc_id], AllWritesOk)
    /\ UNCHANGED sessions

Next ==
    \/ Create
    \/ Missing
    \/ Submit
    \/ Approve
    \/ Reject
    \/ Resubmit

Spec == Init /\ [][Next]_vars

----------------------------------------------------------------------------
(* Concurrent execution: the server runs requests in threads, each with its *)
(* own database session.  A request loads the row (Begin), then checks the  *)
(* copy it loaded and commits its writes (Finish); neither the session nor  *)
(* the UPDATE it issues compares the row with the copy.                     *)

\* document = Document.query.get_or_404(doc_id): the session keeps the copy.
Begin(w, op, u, doc_id, c) ==
    /\ sessions[w] = Idle
    /\ Exists(doc_id)
    /\ sessions' = [sessions EXCEPT ![w] =
           [phase |-> "loaded", op |-> op, user |-> u, doc_id |-> doc_id,
            comments |-> c, document |-> documents[doc_id]]]
    /\ UNCHANGED <<users, documents, approvals, now, response>>

\* The rest of the handler, from the permission check to the return.
Finish(w) ==
    LET r == sessions[w] IN
    /\ r.phase = "loaded"
    /\ \/ r.op = "submit"
            /\ submit_document(r.user, r.doc_id, r.document, AllWritesOk)
       \/ r.op = "approve"
            /\ approve_document(r.user, r.doc_id, r.comments, r.document,
                                AllWritesOk)
       \/ r.op = "reject"
            /\ reject_document(r.user, r.doc_id, r.comments, r.document,
                               AllWritesOk)
       \/ r.op = "resubmit"
            /\ document_resubmit(r.user, r.doc_id, r.document, AllWritesOk)
    /\ sessions' = [sessions EXCEPT ![w] = Idle]

\* The document of the concurrent exploration: written by a student, with
\* the approvers the form's lists offer for each field.
CreateListed ==
    /\ documents = <<>>
    /\ \E u \in UserIds :
          /\ users[u].role = "student"
          /\ \E s \in {x \in UserIds : users[x].role = "teacher"},
                h \in {x \in UserIds : users[x].role = "department_head"},
                d \in {x \in UserIds : users[x].role = "dean"} :
                create_document(u, u, s, h, d)
    /\ UNCHANGED sessions

\* The requests of the concurrent exploration: the author's submit and
\* resubmit, and approve and reject by the users assigned to the document.
Racers(op, doc_id) ==
    LET document == documents[doc_id] IN
    IF op \in {"submit", "resubmit"}
        THEN {document.author_id}
        ELSE {document.supervisor_id, document.department_head_id,
              document.dean_id}

BeginRequest ==
    \E w \in Workers, op \in Ops, doc_id \in DocIds :
        /\ Exists(doc_id)
        /\ \E u \in Racers(op, doc_id) : Begin(w, op, u, doc_id, "")

FinishRequest ==
    /\ \E w \in Workers : Finish(w)
    /\ Len(approvals') <= MaxLedger

NextConc ==
    \/ CreateListed
    \/ BeginRequest
    \/ FinishRequest
    \/ Tick

SpecConc == Init /\ [][NextConc]_vars

----------------------------------------------------------------------------
(* Serial execution with failing writes and a moving clock: each commit of  *)
(* a request, the handler's own and the one inside create_notification, may *)
(* raise (the database is locked, the disk is full), and time passes        *)
(* between requests.                                                        *)

\* The handler of request `op`, run on the row `document` it loaded.
Handle(op, u, doc_id, c, document, io) ==
    \/ op = "submit" /\ submit_document(u, doc_id, document, io)
    \/ op = "approve" /\ approve_document(u, doc_id, c, document, io)
    \/ op = "reject" /\ reject_document(u, doc_id, c, document, io)
    \/ op = "resubmit" /\ document_resubmit(u, doc_id, document, io)

\* The route of request `op`, from get_or_404 to the return.
Request(op, u, doc_id, c, io) ==
    /\ Exists(doc_id)
    /\ Handle(op, u, doc_id, c, documents[doc_id], io)

\* One request of kind op by any user, run from start to end.
Serial(op) ==
    /\ \E u \in UserIds, doc_id \in DocIds :
          Request(op, u, doc_id, "", AllWritesOk)
    /\ Bounded
    /\ UNCHANGED sessions

FaultyRequest ==
    /\ \E op \in Ops, u \in UserIds, doc_id \in DocIds, io \in WriteOutcomes :
          Request(op, u, doc_id, "", io)
    /\ Bounded
    /\ UNCHANGED sessions

NextFaults ==
    \/ CreateListed
    \/ FaultyRequest
    \/ Tick

SpecFaults == Init /\ [][NextFaults]_vars

----------------------------------------------------------------------------
(* The clock under concurrency.  A handler reads datetime.utcnow() when it  *)
(* assigns document.updated_at and commits afterwards, and time passes      *)
(* between any two readings of the clock; another request can commit        *)
(* between the reading and the commit.                                      *)

\* The request's work before its commit: get_or_404 and the reading of the
\* clock, kept in the session with the copy of the row.
BeginStamped(w, op, u, doc_id) ==
    /\ sessions[w] = Idle
    /\ Exists(doc_id)
    /\ now < MaxStamps
    /\ now' = now + 1
    /\ sessions' = [sessions EXCEPT ![w] =
           [phase |-> "loaded", op |-> op, user |-> u, doc_id |-> doc_id,
            comments |-> "", document |-> documents[doc_id],
            utcnow |-> now + 1]]
    /\ UNCHANGED <<users, documents, approvals, response>>

\* The checks on the copy and the commit of what the request assigned.
FinishStamped(w) ==
    LET r == sessions[w] IN
    /\ r.phase = "loaded"
    /\ Handle(r.op, r.user, r.doc_id, r.comments, r.document,
              [commit |-> TRUE, notify |-> TRUE, utcnow |-> r.utcnow])
    /\ sessions' = [sessions EXCEPT ![w] = Idle]

BeginStampedRequest ==
    \E w \in Workers, op \in Ops, doc_id \in DocIds :
        /\ Exists(doc_id)
        /\ \E u \in Racers(op, doc_id) : BeginStamped(w, op, u, doc_id)

FinishStampedRequest ==
    /\ \E w \in Workers : FinishStamped(w)
    /\ Len(approvals') <= MaxLedger

NextStamps ==
    \/ CreateListed
    \/ BeginStampedRequest
    \/ FinishStampedRequest

SpecStamps == Init /\ [][NextStamps]_vars

----------------------------------------------------------------------------
(* Accounts: the administrator deactivates and activates users while they   *)
(* hold a login session.  Every user of Init is active, so each of them can *)
(* have logged in before being deactivated.                                 *)

\* current_user.is_authenticated, which @login_required tests.  User inherits
\* it from flask_login.UserMixin and overrides is_active with the column:
\* the mixin answers True for any loaded user up to Flask-Login 0.5 and
\* self.is_active from 0.6 on.  The repository pins no version, so for a
\* deactivated user either value is possible.
is_authenticated(u) == IF users[u].is_active THEN {TRUE} ELSE BOOLEAN

\* login_manager.unauthorized(): the redirect to login_view.
Unauthenticated(op, u, doc_id) ==
    /\ response' = Answer(op, u, doc_id, 302, "none", "", NothingSent)
    /\ UNCHANGED <<users, documents, approvals, now>>

admin_deactivate_user(u, user_id) ==
    IF users[u].role # "admin"
        THEN /\ response' = Answer("deactivate", u, 0, 403, "none", "", NothingSent)
             /\ UNCHANGED <<users, documents, approvals, now>>
    ELSE IF user_id \notin UserIds
        THEN /\ response' = Answer("deactivate", u, 0, 500, "none", "", NothingSent)
             /\ UNCHANGED <<users, documents, approvals, now>>
    ELSE IF user_id = u
        THEN /\ response' = Answer("deactivate", u, 0, 400, "none", "", NothingSent)
             /\ UNCHANGED <<users, documents, approvals, now>>
    ELSE /\ users' = [users EXCEPT ![user_id].is_active = FALSE]
         /\ response' = Answer("deactivate", u, 0, 200, "none", "", NothingSent)
         /\ UNCHANGED <<documents, approvals, now>>

admin_activate_user(u, user_id) ==
    IF users[u].role # "admin"
        THEN /\ response' = Answer("activate", u, 0, 403, "none", "", NothingSent)
             /\ UNCHANGED <<users, documents, approvals, now>>
    ELSE IF user_id \notin UserIds
        THEN /\ response' = Answer("activate", u, 0, 500, "none", "", NothingSent)
             /\ UNCHANGED <<users, documents, approvals, now>>
    ELSE /\ users' = [users EXCEPT ![user_id].is_active = TRUE]
         /\ response' = Answer("activate", u, 0, 200, "none", "",
               Sent(AllWritesOk,
                    <<create_notification(user_id, "Hisobingiz faollashtirildi")>>))
         /\ UNCHANGED <<documents, approvals, now>>

\* The user ids an admin request names: the rows of the table and an id
\* with no row.
FormUserIds == UserIds \cup {NoUser}

Deactivate ==
    /\ \E u \in UserIds, user_id \in FormUserIds :
          \E passes \in is_authenticated(u) :
             IF passes THEN admin_deactivate_user(u, user_id)
                       ELSE Unauthenticated("deactivate", u, 0)
    /\ UNCHANGED sessions

Activate ==
    /\ \E u \in UserIds, user_id \in FormUserIds :
          \E passes \in is_authenticated(u) :
             IF passes THEN admin_activate_user(u, user_id)
                       ELSE Unauthenticated("activate", u, 0)
    /\ UNCHANGED sessions

\* A workflow request by a user who holds a login session.
AccountRequest ==
    /\ \E op \in Ops, u \in UserIds, doc_id \in DocIds :
          \E passes \in is_authenticated(u) :
             IF passes THEN Request(op, u, doc_id, "", AllWritesOk)
                       ELSE Exists(doc_id) /\ Unauthenticated(op, u, doc_id)
    /\ Bounded
    /\ UNCHANGED sessions

NextAccounts ==
    \/ CreateListed
    \/ Deactivate
    \/ Activate
    \/ AccountRequest

SpecAccounts == Init /\ [][NextAccounts]_vars

----------------------------------------------------------------------------
(* Roles: the administrator changes a user's role while documents that name *)
(* the user as approver are under way.                                       *)

\* admin_update_user_role; the student_id and guruh columns it clears are
\* not part of the state.
admin_update_user_role(u, user_id, new_role) ==
    IF users[u].role # "admin"
        THEN /\ response' = Answer("update_role", u, 0, 403, "none", "", NothingSent)
             /\ UNCHANGED <<users, documents, approvals, now>>
    ELSE IF user_id \notin UserIds
        THEN /\ response' = Answer("update_role", u, 0, 500, "none", "", NothingSent)
             /\ UNCHANGED <<users, documents, approvals, now>>
    ELSE IF user_id = u \/ new_role \notin valid_roles
        THEN /\ response' = Answer("update_role", u, 0, 400, "none", "", NothingSent)
             /\ UNCHANGED <<users, documents, approvals, now>>
    ELSE /\ users' = [users EXCEPT ![user_id].role = new_role]
         /\ response' = Answer("update_role", u, 0, 200, "none", "", NothingSent)
         /\ UNCHANGED <<documents, approvals, now>>

\* pending_docs with the status filters left out of the three queries.
pending_docs_AnyStatus(u) ==
    IF users[u].role = "teacher"
        THEN {d \in DOMAIN documents : documents[d].supervisor_id = u}
    ELSE IF users[u].role = "department_head"
        THEN {d \in DOMAIN documents : documents[d].department_head_id = u}
    ELSE IF users[u].role = "dean"
        THEN {d \in DOMAIN documents : documents[d].dean_id = u}
    ELSE {}

\* pending_docs of the approvals page for current_user u, as the set of the
\* ids of the rows the query returns; the other roles are sent to the
\* dashboard with no list.
pending_docs(u) ==
    IF users[u].role = "teacher"
        THEN {d \in DOMAIN documents :
                /\ documents[d].supervisor_id = u
                /\ documents[d].status = "submitted"}
    ELSE IF users[u].role = "department_head"
        THEN {d \in DOMAIN documents :
                /\ documents[d].department_head_id = u
                /\ documents[d].status = "supervisor_approved"}
    ELSE IF users[u].role = "dean"
        THEN {d \in DOMAIN documents :
                /\ documents[d].dean_id = u
                /\ documents[d].status = "department_approved"}
    ELSE {}

\* The approvals page: the list it renders, or the redirect to the dashboard.
approvals_page(u) ==
    /\ response' =
          IF users[u].role \notin {"teacher", "department_head", "dean"}
              THEN Answer("approvals", u, 0, 302, "none", "", NothingSent)
              ELSE [Answer("approvals", u, 0, 200, "none", "", NothingSent)
                      EXCEPT !.pending_docs = pending_docs(u)]
    /\ UNCHANGED <<users, documents, approvals, now>>

ApprovalsPage ==
    /\ \E u \in UserIds : approvals_page(u)
    /\ UNCHANGED sessions

\* request.get_json()'s 'role': one of the roles, or absent.
FormRoles == valid_roles \cup {""}

\* The user whose role the requests of this exploration change: the teacher
\* of SeedUsers, or an id with no row.
RoleTargets ==
    {NoUser} \cup {x \in UserIds : SeedUsers[x].role = "teacher"}

UpdateRole ==
    /\ \E u \in UserIds, user_id \in RoleTargets, new_role \in FormRoles :
          \E passes \in is_authenticated(u) :
             IF passes THEN admin_update_user_role(u, user_id, new_role)
                       ELSE Unauthenticated("update_role", u, 0)
    /\ UNCHANGED sessions

NextRoles ==
    \/ CreateListed
    \/ UpdateRole
    \/ ApprovalsPage
    \/ Serial("submit")
    \/ Serial("approve")
    \/ Serial("reject")
    \/ Serial("resubmit")

SpecRoles == Init /\ [][NextRoles]_vars

----------------------------------------------------------------------------
(* Administration: admins deactivate and delete users and change roles.     *)

\* admin_delete_user.  db.session.delete(user) deletes the user's documents
\* with their ledger rows (cascade='all, delete-orphan') and sets approver_id
\* of the user's remaining ledger rows to NULL, which the column refuses: the
\* commit raises and the except branch answers 500.  The table holds at most
\* the one document of DocIds, so no other row changes its place.
admin_delete_user(u, user_id) ==
    LET kept == SelectSeq(documents, LAMBDA d : d.author_id # user_id)
        gone == {d \in DOMAIN documents : documents[d].author_id = user_id}
        left == SelectSeq(approvals, LAMBDA a : a.document_id \notin gone)
    IN  IF users[u].role # "admin"
            THEN /\ response' = Answer("delete_user", u, 0, 403, "none", "",
                                       NothingSent)
                 /\ UNCHANGED <<users, documents, approvals, now>>
        ELSE IF user_id \notin UserIds
            THEN /\ response' = Answer("delete_user", u, 0, 500, "none", "",
                                       NothingSent)
                 /\ UNCHANGED <<users, documents, approvals, now>>
        ELSE IF user_id = u
            THEN /\ response' = Answer("delete_user", u, 0, 400, "none", "",
                                       NothingSent)
                 /\ UNCHANGED <<users, documents, approvals, now>>
        ELSE IF \E i \in DOMAIN left : left[i].approver_id = user_id
            THEN /\ response' = Answer("delete_user", u, 0, 500, "none", "",
                                       NothingSent)
                 /\ UNCHANGED <<users, documents, approvals, now>>
        ELSE /\ users' = [x \in DOMAIN users \ {user_id} |-> users[x]]
             /\ documents' = kept
             /\ approvals' = left
             /\ response' = [Answer("delete_user", u, 0, 200, "none", "",
                                    NothingSent) EXCEPT !.rows = Len(left)]
             /\ UNCHANGED now

DeleteUser ==
    /\ \E u \in UserIds, user_id \in FormUserIds :
          \E passes \in is_authenticated(u) :
             IF passes THEN admin_delete_user(u, user_id)
                       ELSE Unauthenticated("delete_user", u, 0)
    /\ UNCHANGED sessions

NextAdmins ==
    \/ Deactivate
    \/ DeleteUser
    \/ UpdateRole

SpecAdmins == Init /\ [][NextAdmins]_vars

----------------------------------------------------------------------------
(* Sign-up: users register or are added by the administrator, and log in.   *)
(* The rows of this exploration carry the password the user was given.      *)

\* The 'password' field of the forms: absent/empty, the user's password, or
\* another text.
Passwords == {"", "secret", "wrong"}

\* User(role=..., is_active=...) followed by set_password(password).
User(role, is_active, password) ==
    [role |-> role, department |-> "IT", faculty |-> "Engineering",
     is_active |-> is_active, password |-> password]

\* init_database gives each seeded user a password.
InitSignup ==
    /\ users = [i \in DOMAIN SeedUsers |->
                  [User(SeedUsers[i].role, SeedUsers[i].is_active, "secret")
                     EXCEPT !.department = SeedUsers[i].department,
                            !.faculty = SeedUsers[i].faculty]]
    /\ documents = <<>>
    /\ approvals = <<>>
    /\ now = 0
    /\ sessions = [w \in Workers |-> Idle]
    /\ response = NoResponse

\* login that logs a user in without looking at is_active.
LoginResult_IgnoresActive(u, password) ==
    IF password = "" THEN 200
    ELSE IF u \notin UserIds THEN 200
    ELSE IF users[u].password # password THEN 200
    ELSE 302

\* The answer of login for the row the username finds (NoUser: none) and
\* the password typed: 302, the redirect after login_user, or 200, the login
\* page again.
LoginResult(u, password) ==
    IF password = "" THEN 200
    ELSE IF u \notin UserIds THEN 200
    ELSE IF users[u].password # password THEN 200
    ELSE IF ~users[u].is_active THEN 200
    ELSE 302

\* user.last_login, the one column login writes, is not part of the state.
login(u, password) ==
    /\ response' = Answer("login", u, 0, LoginResult(u, password), "none", "",
                          NothingSent)
    /\ UNCHANGED <<users, documents, approvals, now>>

\* The active admins, whom register notifies, in the order of their ids.
ActiveAdmins ==
    SelectSeq([i \in 1..Len(users) |-> i],
              LAMBDA i : users[i].role = "admin" /\ users[i].is_active)

\* register; `taken` says that the username, email or student id of the form
\* is in use.  The password is given twice, so an empty one fails the
\* validation and any other passes it.
register(password, taken) ==
    IF password = "" \/ taken
        THEN /\ response' = Answer("register", NoUser, 0, 200, "none", "",
                                   NothingSent)
             /\ UNCHANGED <<users, documents, approvals, now>>
    ELSE /\ users' = Append(users, User("student", FALSE, password))
         /\ response' = Answer("register", NoUser, 0, 302, "none", "",
               Sent(AllWritesOk,
                    [i \in DOMAIN ActiveAdmins |->
                       create_notification(ActiveAdmins[i],
                                           "Yangi talaba ro'yxatdan o'tdi")]))
         /\ UNCHANGED <<documents, approvals, now>>

\* admin_add_user: neither role nor password is validated.
admin_add_user(u, role, password, taken) ==
    IF users[u].role # "admin"
        THEN /\ response' = Answer("add_user", u, 0, 403, "none", "", NothingSent)
             /\ UNCHANGED <<users, documents, approvals, now>>
    ELSE IF taken
        THEN /\ response' = Answer("add_user", u, 0, 200, "none", "", NothingSent)
             /\ UNCHANGED <<users, documents, approvals, now>>
    ELSE /\ users' = Append(users, User(role, TRUE, password))
         /\ response' = Answer("add_user", u, 0, 200, "none", "", NothingSent)
         /\ UNCHANGED <<documents, approvals, now>>

Login ==
    /\ \E u \in FormUserIds, password \in Passwords : login(u, password)
    /\ UNCHANGED sessions

Register ==
    /\ Len(users) < MaxUsers
    /\ \E password \in {"", "secret"}, taken \in BOOLEAN :
          register(password, taken)
    /\ UNCHANGED sessions

\* The administrator's form offers the roles; the exploration adds students
\* and teachers.
AddUser ==
    /\ Len(users) < MaxUsers
    /\ \E u \in UserIds, role \in {"student", "teacher"},
          password \in {"", "secret"}, taken \in BOOLEAN :
          admin_add_user(u, role, password, taken)
    /\ UNCHANGED sessions

NextSignup ==
    \/ Register
    \/ AddUser
    \/ Activate
    \/ Login

SpecSignup == InitSignup /\ [][NextSignup]_vars

----------------------------------------------------------------------------
(* Progress under serial execution.  The handlers are the ones of Spec; the  *)
(* fairness conditions say that a call the document keeps waiting for is     *)
(* eventually made: the author submits a draft and resubmits a rejected      *)
(* document, and the approver in whose pending list a document appears again *)
(* and again eventually approves it.  Rejections stay unconstrained, so a    *)
(* behaviour may hold any number of reject/resubmit cycles.                  *)

\* A student's document with any choice in the approver fields.
CreateRouted ==
    /\ documents = <<>>
    /\ \E u \in UserIds, s, h, d \in FormApprovers :
          /\ users[u].role = "student"
          /\ create_document(u, u, s, h, d)
    /\ UNCHANGED sessions

\* A successful submit, approve or resubmit of a document in `status`.
Advance(status) ==
    /\ \E doc_id \in DocIds :
          Exists(doc_id) /\ documents[doc_id].status = status
    /\ Serial("submit") \/ Serial("approve") \/ Serial("resubmit")
    /\ response'.code = 200

NextLive ==
    \/ CreateRouted
    \/ Serial("submit")
    \/ Serial("approve")
    \/ Serial("reject")
    \/ Serial("resubmit")

SpecLive ==
    /\ Init
    /\ [][NextLive]_vars
    /\ \A status \in Statuses \ {"approved"} : SF_vars(Advance(status))

----------------------------------------------------------------------------
(* The handlers of app.py, the older entry point, on the same tables.  They *)
(* have no try/except: get_or_404 answers 404.                              *)

\* request.json's 'approval_type', which app.py's approve_document stores
\* as it comes.
ApprovalTypes == {"supervisor", "department_head", "dean"}

\* document.status = ...; db.session.commit(): the UPDATE is issued only when
\* the value changed, and then onupdate sets updated_at.
app_UpdateStatus(doc_id, status) ==
    documents' = IF documents[doc_id].status = status THEN documents
                 ELSE [documents EXCEPT ![doc_id].status = status,
                                        ![doc_id].updated_at = now]

app_submit_document(u, doc_id) ==
    IF ~Exists(doc_id)
        THEN /\ response' = Answer("submit", u, doc_id, 404, "none", "", NothingSent)
             /\ UNCHANGED <<users, documents, approvals, now>>
    ELSE IF documents[doc_id].author_id # u
        THEN Refuse("submit", u, doc_id, 403, documents[doc_id], "")
    ELSE /\ app_UpdateStatus(doc_id, "submitted")
         /\ response' = Answer("submit", u, doc_id, 200,
                               documents[doc_id].status, "", NothingSent)
         /\ UNCHANGED <<users, approvals, now>>

app_approve_document(u, doc_id, approval_type, comments) ==
    IF ~Exists(doc_id)
        THEN /\ response' = Answer("approve", u, doc_id, 404, "none", comments,
                                   NothingSent)
             /\ UNCHANGED <<users, documents, approvals, now>>
    ELSE LET document == documents[doc_id]
             check == IF users[u].role = "teacher" /\ document.supervisor_id = u
                          THEN [can_approve |-> TRUE,
                                next_status |-> "supervisor_approved"]
                      ELSE IF users[u].role = "department_head"
                              /\ document.department_head_id = u
                          THEN [can_approve |-> TRUE,
                                next_status |-> "department_approved"]
                      ELSE IF users[u].role = "dean" /\ document.dean_id = u
                          THEN [can_approve |-> TRUE, next_status |-> "approved"]
                      ELSE [can_approve |-> FALSE, next_status |-> "none"]
         IN  IF ~check.can_approve
                 THEN Refuse("approve", u, doc_id, 403, document, comments)
             ELSE /\ approvals' = Append(approvals,
                          DocumentApproval(doc_id, u, approval_type,
                                           "approved", comments))
                  /\ app_UpdateStatus(doc_id, check.next_status)
                  /\ response' = Answer("approve", u, doc_id, 200,
                                        document.status, comments, NothingSent)
                  /\ UNCHANGED <<users, now>>

app_document_resubmit(u, doc_id) ==
    IF ~Exists(doc_id)
        THEN /\ response' = Answer("resubmit", u, doc_id, 404, "none", "",
                                   NothingSent)
             /\ UNCHANGED <<users, documents, approvals, now>>
    ELSE IF documents[doc_id].author_id # u
        THEN Refuse("resubmit", u, doc_id, 403, documents[doc_id], "")
    ELSE IF documents[doc_id].status # "rejected"
        THEN Refuse("resubmit", u, doc_id, 400, documents[doc_id], "")
    ELSE /\ UpdateStatus(doc_id, "submitted", now)
         /\ approvals' = DeleteApprovals(approvals, doc_id)
         /\ response' = Answer("resubmit", u, doc_id, 200,
                               documents[doc_id].status, "", NothingSent)
         /\ UNCHANGED <<users, now>>

AppSubmit ==
    /\ \E u \in UserIds, doc_id \in DocIds : app_submit_document(u, doc_id)
    /\ UNCHANGED sessions

AppApprove ==
    /\ \E u \in UserIds, doc_id \in DocIds, t \in ApprovalTypes :
          app_approve_document(u, doc_id, t, "")
    /\ Len(approvals') <= MaxLedger
    /\ UNCHANGED sessions

AppResubmit ==
    /\ \E u \in UserIds, doc_id \in DocIds : app_document_resubmit(u, doc_id)
    /\ UNCHANGED sessions

\* A reject, which only run.py offers, so that app.py's resubmit has
\* rejected documents to work on.
RunReject ==
    /\ \E u \in UserIds, doc_id \in DocIds :
          Request("reject", u, doc_id, "", AllWritesOk)
    /\ Len(approvals') <= MaxLedger
    /\ UNCHANGED sessions

NextApp ==
    \/ CreateListed
    \/ AppSubmit
    \/ AppApprove
    \/ AppResubmit
    \/ RunReject
    \/ Tick

SpecApp == Init /\ [][NextApp]_vars

----------------------------------------------------------------------------
(* The create form over every small directory: users of any role, in one of *)
(* two departments and two faculties, and a form that names any of them, or *)
(* an id with no row, as the author.                                        *)

UserRows ==
    [role : valid_roles, department : {"IT", "Physics"},
     faculty : {"Engineering", "Science"}, is_active : {TRUE}]

InitCreate ==
    /\ users \in [1..MaxDirectory -> UserRows]
    /\ documents = <<>>
    /\ approvals = <<>>
    /\ now = 0
    /\ sessions = [w \in Workers |-> Idle]
    /\ response = NoResponse

CreateAny ==
    /\ documents = <<>>
    /\ \E u \in UserIds, author_id \in FormUserIds :
          create_document(u, author_id, NoUser, NoUser, NoUser)
    /\ UNCHANGED sessions

SpecCreate == InitCreate /\ [][CreateAny]_vars

----------------------------------------------------------------------------
(* The transition table of the specification, as the claims state it. *)

Edges ==
    {<<"draft", "submitted">>,
     <<"submitted", "supervisor_approved">>,
     <<"supervisor_approved", "department_approved">>,
     <<"department_approved", "approved">>,
     <<"submitted", "rejected">>,
     <<"supervisor_approved", "rejected">>,
     <<"department_approved", "rejected">>,
     <<"rejected", "submitted">>}

\* The approver the table names for a document in `status`: u holds the
\* stage's role and is the user assigned to the stage.
IsStageApprover(status, u, document) ==
    \/ /\ status = "submitted"
       /\ users[u].role = "teacher"
       /\ document.supervisor_id = u
    \/ /\ status = "supervisor_approved"
       /\ users[u].role = "department_head"
       /\ document.department_head_id = u
    \/ /\ status = "department_approved"
       /\ users[u].role = "dean"
       /\ document.dean_id = u

\* One step along the chain.
ChainNext(status) ==
    CASE status = "submitted" -> "supervisor_approved"
      [] status = "supervisor_approved" -> "department_approved"
      [] status = "department_approved" -> "approved"
      [] OTHER -> "none"

\* The stage at which a document in `status` stands.
StageOf(status) ==
    CASE status = "submitted" -> "supervisor"
      [] status = "supervisor_approved" -> "department_head"
      [] status = "department_approved" -> "dean"
      [] OTHER -> "none"

\* The last request was `op` on a document that exists, and was answered.
Answered(op) == response.op = op /\ response.doc_id \in DOMAIN documents

Succeeded(op) == Answered(op) /\ response.code = 200

\* The row the last request named.
Doc == documents[response.doc_id]

LedgerOf(doc_id) == SelectSeq(approvals, LAMBDA a : a.document_id = doc_id)

----------------------------------------------------------------------------
(* C1..C10 *)

\* C1: the status of a document is always one of the six values, and every
\* change of status made by a request is an edge of the transition table.
C1_StatusFollowsTable ==
    [][\A d \in DOMAIN documents :
          /\ documents'[d].status \in Statuses
          /\ documents'[d].status # documents[d].status
                => <<documents[d].status, documents'[d].status>> \in Edges]_vars

\* C2: approve_document succeeds exactly when the actor is the approver the
\* table names for the status the document had, and then the status is the
\* next one of the chain; in particular a user with the stage's role who is
\* not assigned to the document is refused.
C2_ApproveMatchesTable ==
    Answered("approve") =>
        /\ response.code = 200 <=> IsStageApprover(response.from, response.user, Doc)
        /\ response.code = 200 => Doc.status = ChainNext(response.from)
        /\ response.code # 200 => Doc.status = response.from

C2_Witness ==
    /\ Succeeded("approve")
    /\ response.from = "department_approved"
    /\ Doc.status = "approved"

\* C3: reject_document succeeds only for the approver the table names for
\* the status the document had; on draft, approved and rejected documents
\* and for approvers of another stage it is refused.
C3_RejectOnlyAtOwnStage ==
    Succeeded("reject") => IsStageApprover(response.from, response.user, Doc)

\* C4: once a document is approved, no request changes its status or the
\* ledger.
C4_ApprovedIsTerminal ==
    [][\A d \in DOMAIN documents :
          documents[d].status = "approved"
            => documents'[d].status = "approved" /\ approvals' = approvals]_vars

\* C5: an approve request that succeeds worked on a copy of the row that was
\* still the row of the table when it committed; a request whose copy went
\* stale while it was in flight (another approve or a reject changed the
\* row after it was loaded) fails and writes nothing.
C5_StaleRequestFails ==
    [][\A w \in Workers :
          (/\ sessions[w].phase = "loaded"
           /\ sessions[w].op = "approve"
           /\ sessions'[w] = Idle
           /\ response'.code = 200)
            => sessions[w].document = documents[sessions[w].doc_id]]_vars

\* C6: right after a successful document_resubmit the document is submitted
\* and the ledger holds no row of it, whatever rows it held before.
C6_ResubmitClearsLedger ==
    Succeeded("resubmit") =>
        /\ LedgerOf(response.doc_id) = <<>>
        /\ Doc.status = "submitted"

C6_Witness ==
    /\ Succeeded("resubmit")
    /\ response.rows >= 3
    /\ approvals = <<>>

\* C7: the same approve or reject call, made again right after it succeeded,
\* is refused and changes neither the document nor the ledger.
C7_RetryIsRefused ==
    [][(/\ response.code = 200
        /\ response.op \in {"approve", "reject"}
        /\ response'.op = response.op
        /\ response'.user = response.user
        /\ response'.doc_id = response.doc_id
        /\ response'.comments = response.comments)
         => /\ response'.code # 200
            /\ documents' = documents
            /\ approvals' = approvals]_vars

\* C8: a successful approve or reject adds exactly one ledger row: its
\* approver is the actor, its decision the one made, its comments those of
\* the request, and its approval_type the stage at which the document
\* stood before the call.
C8_EntryRecordsStage ==
    \A op \in {"approve", "reject"} :
        (Succeeded(op) /\ StageOf(response.from) # "none") =>
            /\ Len(approvals) = response.rows + 1
            /\ approvals[Len(approvals)] =
                   [document_id |-> response.doc_id,
                    approver_id |-> response.user,
                    approval_type |-> StageOf(response.from),
                    status |-> IF op = "approve" THEN "approved" ELSE "rejected",
                    comments |-> response.comments]

\* C9: submit_document succeeds exactly when the actor is the author and the
\* document is a draft; it then makes it submitted and adds no ledger row,
\* and a refused submit leaves the status as it was.
C9_SubmitByAuthorOfDraft ==
    Answered("submit") =>
        /\ response.code = 200
              <=> (response.user = Doc.author_id /\ response.from = "draft")
        /\ response.code = 200 => Doc.status = "submitted"
        /\ response.code # 200 => Doc.status = response.from
        /\ Len(approvals) = response.rows

C9_Witness ==
    /\ Succeeded("submit")
    /\ response.from = "draft"
    /\ Doc.status = "submitted"

\* C10: document_resubmit succeeds exactly when the actor is the author and
\* the document is rejected, and then the document is submitted again; on
\* any other status it fails and leaves the status and the ledger as they
\* were.
C10_ResubmitByAuthorOfRejected ==
    Answered("resubmit") =>
        /\ response.code = 200
              <=> (response.user = Doc.author_id /\ response.from = "rejected")
        /\ response.code = 200 => Doc.status = "submitted"
        /\ response.code # 200
              => Doc.status = response.from /\ Len(approvals) = response.rows

C10_Witness ==
    /\ Succeeded("resubmit")
    /\ response.user = Doc.author_id
    /\ response.from = "rejected"
    /\ Doc.status = "submitted"

----------------------------------------------------------------------------
(* C11..C20 *)

\* The table has a row for request `op` on a document in `status`.
HasRow(op, status) ==
    CASE op = "submit" -> status = "draft"
      [] op = "resubmit" -> status = "rejected"
      [] OTHER -> StageOf(status) # "none"

\* u holds the role of one of the document's stages and is assigned to it.
IsAssigned(u, document) ==
    \E status \in Statuses : IsStageApprover(status, u, document)

\* u is the one the table would name for `op` at the right status.
HasStanding(op, u, document) ==
    IF op \in {"submit", "resubmit"}
        THEN document.author_id = u
        ELSE IsAssigned(u, document)

\* C11: a request for which the table has no row at the document's status
\* fails, and not with the answer given to the unauthorized (403), also when
\* the caller is the author or an approver assigned to the document.
C11_InvalidTransitionIsDistinct ==
    \A op \in Ops :
        (/\ Answered(op)
         /\ HasStanding(op, response.user, Doc)
         /\ ~HasRow(op, response.from))
            => response.code \notin {200, 403}

\* The status a ledger row stands for: the status its decision writes.
TargetOf(row) ==
    IF row.status = "rejected" THEN "rejected"
    ELSE CASE row.approval_type = "supervisor" -> "supervisor_approved"
           [] row.approval_type = "department_head" -> "department_approved"
           [] row.approval_type = "dean" -> "approved"
           [] OTHER -> "none"

\* C12: an approve or reject request, also one whose commit fails, either
\* adds one ledger row of the document and writes the status (and
\* updated_at) that row stands for, or leaves both tables as they were:
\* never a row without its status, never a status without its row.
C12_DecisionIsOneUnit ==
    [][(response'.op \in {"approve", "reject"}
        /\ response'.doc_id \in DOMAIN documents)
        => LET d == response'.doc_id
               n == Len(approvals)
           IN  \/ /\ approvals' = approvals
                  /\ documents' = documents
               \/ /\ Len(approvals') = n + 1
                  /\ SubSeq(approvals', 1, n) = approvals
                  /\ approvals'[n + 1].document_id = d
                  /\ documents' =
                        [documents EXCEPT
                            ![d].status = TargetOf(approvals'[n + 1]),
                            ![d].updated_at = now]]_vars

\* The supervisor's approve reached its commit, the commit raised, and
\* neither the ledger row nor the status was written.
C12_Witness ==
    /\ Answered("approve")
    /\ response.code = 500
    /\ IsStageApprover(response.from, response.user, Doc)
    /\ Doc.status = response.from
    /\ Len(approvals) = response.rows

\* C13: a request of a deactivated user who is the author or an assigned
\* approver, at a status for which the table has a row, is turned away
\* before the handler's checks: it does not succeed, and it does not get
\* the answers of those checks (403, 400).
C13_InactiveActorIsRefused ==
    \A op \in Ops :
        (/\ Answered(op)
         /\ ~users[response.user].is_active
         /\ HasStanding(op, response.user, Doc)
         /\ HasRow(op, response.from))
            => response.code \notin {200, 400, 403}

\* C14: a request that is answered 403 or 400 writes nothing: the document
\* row (status, updated_at), the ledger and the notifications are as they
\* were before it.
C14_RefusalWritesNothing ==
    [][(response'.op \in Ops /\ response'.code \in {400, 403})
        => /\ documents' = documents
           /\ approvals' = approvals
           /\ response'.notified = <<>>
           /\ response'.lost = 0]_vars

\* A refused approve, answered after the clock moved past the row's
\* updated_at, with a ledger that holds rows.
C14_Witness ==
    /\ Answered("approve")
    /\ response.code = 403
    /\ Doc.updated_at < now
    /\ Len(approvals) = response.rows
    /\ approvals # <<>>

\* The users the notifications of the last request are addressed to.
Recipients == [i \in DOMAIN response.notified |-> response.notified[i].user_id]

\* C15: a successful submit or resubmit creates one notification, addressed
\* to the supervisor, when the document has one and none when it has not; a
\* successful approve or reject creates one, addressed to the author.
C15_OwnNotificationOnly ==
    /\ \A op \in {"submit", "resubmit"} :
          (Succeeded(op) /\ HasRow(op, response.from)) =>
              Recipients = IF Doc.supervisor_id = NoUser
                               THEN <<>> ELSE <<Doc.supervisor_id>>
    /\ \A op \in {"approve", "reject"} :
          (Succeeded(op) /\ HasRow(op, response.from)) =>
              Recipients = <<Doc.author_id>>

\* C16: a request for a transition of the table does not answer 200 when
\* one of its writes was lost: a notification that could not be saved is
\* reported to the caller.
C16_NoLostWrite ==
    (/\ response.op \in Ops
     /\ HasRow(response.op, response.from)
     /\ response.code = 200) => response.lost = 0

\* The answer of approve_document and reject_document to u for a row, when
\* the writes succeed: 200 past the permission check, else the 403 return.
StatusCode(op, u, document) ==
    IF op = "approve"
        THEN IF ApproveCheck(u, document).can_approve THEN 200 ELSE 403
        ELSE IF can_reject(u, document) THEN 200 ELSE 403

\* The row the last request loaded, with other users assigned as approvers.
Reassigned(s, h, d) ==
    [Doc EXCEPT !.status = response.from, !.supervisor_id = s,
                !.department_head_id = h, !.dean_id = d]

\* C17: when approve or reject is asked by a user who is not the approver of
\* the document's stage, the answer is the one this user gets in any other
\* run that differs only in the users assigned as approvers and in which
\* the user is not the stage's approver either: the answer tells nothing
\* about the assignment.
C17_AnswerHidesAssignment ==
    \A op \in {"approve", "reject"} :
        (/\ Answered(op)
         /\ HasRow(op, response.from)
         /\ ~IsStageApprover(response.from, response.user, Doc))
            => \A s, h, d \in FormApprovers :
                  ~IsStageApprover(response.from, response.user,
                                   Reassigned(s, h, d))
                    => StatusCode(op, response.user, Reassigned(s, h, d))
                           = response.code

\* C18: no request changes author_id, supervisor_id, department_head_id or
\* dean_id of a document: the row keeps the values it was created with.
C18_AssignmentIsFixed ==
    [][\A d \in DOMAIN documents :
          /\ d \in DOMAIN documents'
          /\ documents'[d].author_id = documents[d].author_id
          /\ documents'[d].supervisor_id = documents[d].supervisor_id
          /\ documents'[d].department_head_id = documents[d].department_head_id
          /\ documents'[d].dean_id = documents[d].dean_id]_vars

\* The document went through a rejection and was resubmitted, and still has
\* its author and its three approvers.
C18_Witness ==
    /\ Succeeded("resubmit")
    /\ response.rows >= 2
    /\ Doc.author_id # NoUser
    /\ Doc.supervisor_id # NoUser
    /\ Doc.department_head_id # NoUser
    /\ Doc.dean_id # NoUser

\* The rule of document creation as the specification words it.
MayCreateFor(creator, target) ==
    \/ users[creator].role = "admin"
    \/ /\ users[creator].role = "dean"
       /\ users[target].faculty = users[creator].faculty
    \/ /\ users[creator].role = "department_head"
       /\ users[target].department = users[creator].department
    \/ /\ users[creator].role = "teacher"
       /\ users[target].role = "student"
       /\ users[target].department = users[creator].department
    \/ /\ users[creator].role \notin {"admin", "dean", "department_head", "teacher"}
       /\ target = creator

\* C19: can_create_document_for_user is the rule of the specification; a
\* create request of a student always creates a document authored by that
\* student, whatever author_id the form carries; a create request of any
\* other user creates a document, authored by the form's author_id, exactly
\* when the rule allows it, and none otherwise.
C19_CreationFollowsRule ==
    /\ \A c, t \in UserIds :
          can_create_document_for_user(c, t) <=> MayCreateFor(c, t)
    /\ response.op = "create_document" =>
          LET c == response.user
              t == response.author_id
          IN  /\ response.code = 302 <=> documents # <<>>
              /\ users[c].role = "student" =>
                    /\ response.code = 302
                    /\ documents[1].author_id = c
              /\ users[c].role # "student" =>
                    /\ response.code = 302 <=> (t \in UserIds /\ MayCreateFor(c, t))
                    /\ response.code = 302 => documents[1].author_id = t

\* A student sent the form with another user's id as author_id, and the
\* document is the student's.
C19_Witness ==
    /\ response.op = "create_document"
    /\ users[response.user].role = "student"
    /\ response.author_id \in UserIds \ {response.user}
    /\ documents # <<>>
    /\ documents[1].author_id = response.user

\* C20: between two resubmits the ledger only grows: a step leaves it as it
\* is, or a successful approve or reject adds one row at its end and keeps
\* the rows it held; only a successful resubmit removes rows, and submit
\* adds none.
C20_LedgerAppendOnly ==
    [][\/ approvals' = approvals
       \/ /\ response'.op \in {"approve", "reject"}
          /\ response'.code = 200
          /\ Len(approvals') = Len(approvals) + 1
          /\ SubSeq(approvals', 1, Len(approvals)) = approvals
       \/ /\ response'.op = "resubmit"
          /\ response'.code = 200]_vars

\* A reject added a row after the row of an earlier approve, which is kept.
C20_Witness ==
    /\ Succeeded("reject")
    /\ Len(approvals) = response.rows + 1
    /\ response.rows >= 1
    /\ approvals[1].status = "approved"

----------------------------------------------------------------------------
(* C21..C30 *)

\* C21: a request that succeeds leaves the document with an updated_at later
\* than the one it had, and no step moves updated_at backwards.
C21_UpdatedAtAdvances ==
    [][/\ \A w \in Workers :
            (/\ sessions[w].phase = "loaded"
             /\ sessions'[w] = Idle
             /\ response'.code = 200)
              => documents'[sessions[w].doc_id].updated_at
                     > documents[sessions[w].doc_id].updated_at
       /\ \A d \in DOMAIN documents :
            documents'[d].updated_at >= documents[d].updated_at]_vars

\* The approved entries of the first k stages, in the order of the chain.
ApprovedEntries(k) ==
    SubSeq(<< <<"supervisor", "approved">>, <<"department_head", "approved">>,
              <<"dean", "approved">> >>, 1, k)

\* The ledger of document d as (approval_type, status) pairs.
Entries(d) ==
    [i \in DOMAIN LedgerOf(d) |->
        <<LedgerOf(d)[i].approval_type, LedgerOf(d)[i].status>>]

\* C22: with one request at a time the ledger of every document matches its
\* status: empty for draft and submitted, the approved entries of the
\* stages passed for supervisor_approved, department_approved and approved,
\* and for rejected the approved entries of the stages passed followed by
\* exactly one rejected entry; so it never has more than three entries.
C22_LedgerMatchesStatus ==
    \A d \in DOMAIN documents :
        LET status == documents[d].status
            n == Len(Entries(d))
        IN  /\ n <= 3
            /\ status \in {"draft", "submitted"} => Entries(d) = <<>>
            /\ status = "supervisor_approved" => Entries(d) = ApprovedEntries(1)
            /\ status = "department_approved" => Entries(d) = ApprovedEntries(2)
            /\ status = "approved" => Entries(d) = ApprovedEntries(3)
            /\ status = "rejected" =>
                  /\ n >= 1
                  /\ SubSeq(Entries(d), 1, n - 1) = ApprovedEntries(n - 1)
                  /\ Entries(d)[n][2] = "rejected"

\* C23: a document is approved only when its ledger, which holds the
\* decisions made since the last submit or resubmit, is the approval of its
\* assigned supervisor, then of its assigned department head, then of its
\* assigned dean: no stage was skipped and no approval of an earlier cycle
\* stands in for one.
C23_ApprovedAfterThreeApprovals ==
    \A d \in DOMAIN documents :
        documents[d].status = "approved" =>
            /\ Entries(d) = ApprovedEntries(3)
            /\ LedgerOf(d)[1].approver_id = documents[d].supervisor_id
            /\ LedgerOf(d)[2].approver_id = documents[d].department_head_id
            /\ LedgerOf(d)[3].approver_id = documents[d].dean_id

\* The row the last request loaded: the row as it is, with the status it had.
Loaded == [Doc EXCEPT !.status = response.from]

\* C24: a request to app.py's submit_document, approve_document or
\* document_resubmit succeeds exactly when run.py's handler of the same name
\* accepts it, and then writes the status and the ledger entry run.py writes:
\* submit for the author of a draft, approve for the approver of the stage
\* with the next status of the chain and an entry of the stage's
\* approval_type, resubmit for the author of a rejected document.
C24_EntryPointsAgree ==
    /\ Answered("submit") =>
          /\ response.code = 200
                <=> (response.user = Doc.author_id /\ response.from = "draft")
          /\ Len(approvals) = response.rows
    /\ Answered("approve") =>
          LET check == ApproveCheck(response.user, Loaded)
          IN  /\ response.code = 200 <=> check.can_approve
              /\ response.code = 200 =>
                    /\ Doc.status = check.next_status
                    /\ Len(approvals) = response.rows + 1
                    /\ approvals[Len(approvals)].approval_type
                           = check.approval_type
              /\ response.code # 200 => Len(approvals) = response.rows
    /\ Answered("resubmit") =>
          /\ response.code = 200
                <=> (response.user = Doc.author_id /\ response.from = "rejected")
          /\ response.code = 200 =>
                Doc.status = "submitted" /\ LedgerOf(response.doc_id) = <<>>

\* The approver fields name active users who hold the roles of their stages.
Routable(document) ==
    /\ document.supervisor_id \in UserIds
    /\ users[document.supervisor_id].role = "teacher"
    /\ users[document.supervisor_id].is_active
    /\ document.department_head_id \in UserIds
    /\ users[document.department_head_id].role = "department_head"
    /\ users[document.department_head_id].is_active
    /\ document.dean_id \in UserIds
    /\ users[document.dean_id].role = "dean"
    /\ users[document.dean_id].is_active

\* C25: under serial execution a document whose three approver fields name
\* active users with the roles teacher, department_head and dean is never
\* stuck: from every status, and after any number of reject/resubmit cycles,
\* successful calls lead to approved.  Checked as: whenever the calls the
\* document waits for keep being made, it becomes approved.
C25_ApprovedIsReachable ==
    \A d \in DocIds :
        (Exists(d) /\ Routable(documents[d]))
            ~> (Exists(d) /\ documents[d].status = "approved")

\* A routable document that the dean's approve has just made approved.
C25_Witness ==
    /\ Succeeded("approve")
    /\ Routable(Doc)
    /\ Doc.status = "approved"
    /\ response.from = "department_approved"

\* C26: no document is approved or rejected by its own author: the
\* approver_id of every ledger entry differs from the author_id of the
\* entry's document.
C26_NoSelfApproval ==
    \A i \in DOMAIN approvals :
        approvals[i].approver_id # documents[approvals[i].document_id].author_id

\* u is named in the supervisor field of the document and in no other.
OnlySupervisor(u, document) ==
    /\ document.supervisor_id = u
    /\ document.author_id # u
    /\ document.department_head_id # u
    /\ document.dean_id # u

\* C27: while the user assigned to a document only as its supervisor holds a
\* role other than teacher, every approve and reject this user asks on the
\* document is refused, and no request takes the document out of status
\* submitted.
C27_RightsFollowRole ==
    [][\A d \in DOMAIN documents :
         (/\ OnlySupervisor(documents[d].supervisor_id, documents[d])
          /\ users[documents[d].supervisor_id].role # "teacher")
            => /\ (/\ response'.op \in {"approve", "reject"}
                   /\ response'.doc_id = d
                   /\ response'.user = documents[d].supervisor_id)
                      => response'.code # 200
               /\ documents[d].status = "submitted"
                      => documents'[d].status = "submitted"]_vars

\* C28: under serial execution the approvals page lists a document for a
\* user if and only if the approve guard accepts this user on the document
\* in the same state, and an approve_document call succeeds if and only if
\* the page lists the document for the caller in the state in which the call
\* is made.
C28_PendingListMatchesGuard ==
    /\ [](response.op = "approvals" =>
             \A d \in DOMAIN documents :
                 d \in response.pending_docs
                    <=> ApproveCheck(response.user, documents[d]).can_approve)
    /\ [][(response'.op = "approve" /\ response'.doc_id \in DOMAIN documents)
             => (response'.code = 200
                   <=> response'.doc_id \in pending_docs(response'.user))]_vars

\* The head has approved a document that was on the head's list; it is now
\* on the dean's list and no longer on the head's.
C28_Witness ==
    /\ Succeeded("approve")
    /\ response.from = "supervisor_approved"
    /\ response.doc_id \in pending_docs(Doc.dean_id)
    /\ response.doc_id \notin pending_docs(response.user)

\* C29: a row register adds has role student and is inactive; no login
\* succeeds for an inactive user, and a user becomes active only by a
\* successful admin_activate_user; a row admin_add_user adds is active and
\* its user can log in at once with the password the row was given.
C29_SignupNeedsActivation ==
    [][LET new == Len(users')
       IN  /\ (response'.op = "register" /\ new > Len(users))
                 => users'[new].role = "student" /\ ~users'[new].is_active
           /\ (response'.op = "login" /\ response'.code = 302)
                 => users[response'.user].is_active
           /\ \A x \in DOMAIN users :
                 (~users[x].is_active /\ users'[x].is_active)
                    => response'.op = "activate" /\ response'.code = 200
           /\ (response'.op = "add_user" /\ new > Len(users))
                 => /\ users'[new].is_active
                    /\ \E u \in 1..MaxUsers, password \in Passwords :
                          /\ u = new
                          /\ password = users'[new].password
                          /\ (LoginResult(u, password))' = 302]_vars

AdminOps == {"deactivate", "delete_user", "update_role"}

\* C30: at least one active admin exists after any sequence of
\* admin_deactivate_user, admin_delete_user and admin_update_user_role
\* calls; the calls of a user who is not an admin change no user, and no
\* call changes or deletes the row of its caller.
C30_ActiveAdminRemains ==
    /\ [](\E x \in DOMAIN users :
             users[x].role = "admin" /\ users[x].is_active)
    /\ [][response'.op \in AdminOps =>
             /\ users[response'.user].role # "admin" => users' = users
             /\ response'.user \in DOMAIN users'
             /\ users'[response'.user] = users[response'.user]]_vars

====
